---- MODULE Spec2Model ----
(***************************************************************************)
(* A model of the PDF crawler (src/pdf_crawler.py): the crawl loop of      *)
(* crawl() in its three scopes, get_page_soup, accept_pdf, download_pdf    *)
(* and the cancellation flag stop_event.                                   *)
(*                                                                         *)
(* Text is modelled as a sequence of tokens (a string over an alphabet     *)
(* whose letters are the words and separators the URLs of the modelled     *)
(* web are made of).  A URL is the record urlparse() returns.              *)
(***************************************************************************)
EXTENDS Integers, Sequences, FiniteSets, TLC

(***************************************************************************)
(* Bounds of the model.                                                    *)
(***************************************************************************)
MaxPagesBound == 3
MaxPdfsBound == 2
MaxChunks == 2
MaxPid == 3
MaxQueryLen == 2

\* ----------------------------- text helpers -----------------------------

\* str.lower() on one token
Lower(s) ==
    CASE s = "A.EX.ORG" -> "a.ex.org"
      [] s = "HTTP" -> "http"
      [] s = ".PDF" -> ".pdf"
      [] s = "FileDownloadServlet" -> "filedownloadservlet"
      [] s = "FILEDOWNLOADSERVLET" -> "filedownloadservlet"
      [] s = "FrontEndFileDownloadServlet" -> "frontendfiledownloadservlet"
      [] s = "downloadFile" -> "downloadfile"
      [] s = "documentDownload" -> "documentdownload"
      [] s = "getDocument" -> "getdocument"
      [] s = "FrontEndViewTender" -> "frontendviewtender"
      [] s = "View More Details" -> "view more details"
      [] OTHER -> s

LowerText(t) == [i \in 1..Len(t) |-> Lower(t[i])]

\* h in t
Contains(t, h) ==
    \E i \in 1..(Len(t) - Len(h) + 1) : SubSeq(t, i, i + Len(h) - 1) = h

\* t.endswith(h)
EndsWith(t, h) ==
    /\ Len(t) >= Len(h)
    /\ SubSeq(t, Len(t) - Len(h) + 1, Len(t)) = h

\* ----------------------------- URL helpers -----------------------------

\* the order of Python's string comparison on the tokens used in queries
Ord(s) ==
    CASE s = "1" -> 1
      [] s = "2" -> 2
      [] s = "3" -> 3
      [] s = "a b" -> 4
      [] s = "id" -> 5
      [] s = "x" -> 6
      [] s = "y" -> 7
      [] OTHER -> 0

PairLess(a, b) ==
    \/ Ord(a[1]) < Ord(b[1])
    \/ Ord(a[1]) = Ord(b[1]) /\ Ord(a[2]) < Ord(b[2])

RECURSIVE InsertPair(_, _)
InsertPair(p, s) ==
    IF s = << >> THEN << p >>
    ELSE IF PairLess(s[1], p) THEN << s[1] >> \o InsertPair(p, Tail(s))
    ELSE << p >> \o s

\* SortPairs leaving the pairs in the order given
SortPairs_AsGiven(s) == s

\* list.sort() on the (key, value) pairs parse_qsl returns
RECURSIVE SortPairs(_)
SortPairs(s) ==
    IF s = << >> THEN << >> ELSE InsertPair(s[1], SortPairs(Tail(s)))

Url(scheme, netloc, path, query, fragment) ==
    [scheme |-> scheme, netloc |-> netloc, path |-> path,
     query |-> query, fragment |-> fragment]

\* unquote_plus on one token: the escapes of a blank are decoded
unquote_plus(s) ==
    CASE s = "a+b" -> "a b"
      [] s = "a%20b" -> "a b"
      [] OTHER -> s

\* quote_plus on one token: a blank is written as a plus sign
quote_plus(s) ==
    CASE s = "a b" -> "a+b"
      [] OTHER -> s

\* parse_qsl(query, keep_blank_values=True): the decoded (key, value) pairs
parse_qsl(query) ==
    [i \in 1..Len(query) |-> << unquote_plus(query[i][1]), unquote_plus(query[i][2]) >>]

\* urlencode(q, doseq=True): the pairs encoded again
urlencode(pairs) ==
    [i \in 1..Len(pairs) |-> << quote_plus(pairs[i][1]), quote_plus(pairs[i][2]) >>]

\* p is the parsed URL and q the list parse_qsl returns
canonicalize_url(u) ==
    CHOOSE c \in { Url(Lower(p.scheme), Lower(p.netloc), p.path,
                       IF p.query # << >> THEN urlencode(SortPairs(q)) ELSE << >>, "") :
                     p \in { u }, q \in { parse_qsl(u.query) } } : TRUE

\* urljoin(base, href) for an absolute or a host-relative href, fragment dropped
normalize_url(href, base) ==
    IF href.netloc = ""
    THEN Url(base.scheme, base.netloc, href.path, href.query, "")
    ELSE Url(href.scheme, href.netloc, href.path, href.query, "")

\* urlparse(u).hostname: the host in lower case
get_host(u) == Lower(u.netloc)

\* tldextract.extract(u): domain + "." + suffix of the host
RegisteredDomain(u) ==
    LET h == Lower(u.netloc) IN
    CASE h = "a.ex.org" -> "ex.org"
      [] h = "b.ex.org" -> "ex.org"
      [] h = "c.other.com" -> "other.com"
      [] OTHER -> h

same_registered_domain(a, b) == RegisteredDomain(a) = RegisteredDomain(b)

RECURSIVE QueryText(_)
QueryText(q) ==
    IF q = << >> THEN << >>
    ELSE << q[1][1], "=" >> \o (IF q[1][2] = "" THEN << >> ELSE << q[1][2] >>)
         \o (IF Len(q) > 1 THEN << "&" >> \o QueryText(Tail(q)) ELSE << >>)

\* urlunparse: the text of a URL
UrlText(u) ==
    << u.scheme, "://", u.netloc >> \o u.path
    \o (IF u.query # << >> THEN << "?" >> \o QueryText(u.query) ELSE << >>)
    \o (IF u.fragment # "" THEN << "#", u.fragment >> ELSE << >>)

\* the place of the first tok in the text t, Len(t) + 1 when there is none
Find(t, tok) ==
    IF \E i \in 1..Len(t) : t[i] = tok
    THEN CHOOSE i \in 1..Len(t) : t[i] = tok /\ \A k \in 1..(i - 1) : t[k] # tok
    ELSE Len(t) + 1

\* the pairs of a query text, split at '&' and at '='; a value may be blank
RECURSIVE SplitQuery(_)
SplitQuery(qt) ==
    IF qt = << >> THEN << >>
    ELSE LET amp == Find(qt, "&")
             piece == SubSeq(qt, 1, amp - 1)
         IN  << << piece[1], IF Len(piece) >= 3 THEN piece[3] ELSE "" >> >>
             \o SplitQuery(SubSeq(qt, amp + 1, Len(qt)))

\* urlparse: the record of a URL text; the scheme comes out in lower case
urlparse(t) ==
    LET hash == Find(t, "#")
        body == SubSeq(t, 1, hash - 1)
        mark == Find(body, "?")
    IN  Url(Lower(t[1]), t[3], SubSeq(body, 4, mark - 1),
            SplitQuery(SubSeq(body, mark + 1, Len(body))),
            IF hash < Len(t) THEN t[hash + 1] ELSE "")

\* ----------------------------- PDF detection -----------------------------

PDF_HINTS ==
    { << ".pdf" >>, << "FileDownloadServlet" >>, << "FrontEndFileDownloadServlet" >>,
      << "downloadFile" >>, << "documentDownload" >>, << "getDocument" >> }

looks_like_pdf_url(u) ==
    \E lu \in { LowerText(t) : t \in { UrlText(u) } } :
        (\E h \in PDF_HINTS : Contains(lu, h)) \/ EndsWith(lu, << ".pdf" >>)

\* ----------------------------- the modelled web -----------------------------

HttpUrl(netloc, path, query) == Url("http", netloc, path, query, "")

SeedUrl == HttpUrl("a.ex.org", << "/", "list" >>, << >>)
SeedUpper == Url("HTTP", "A.EX.ORG", << "/", "list" >>, << >>, "")
SeedTop == Url("http", "a.ex.org", << "/", "list" >>, << >>, "top")
PageP == HttpUrl("a.ex.org", << "/", "p" >>, << << "y", "2" >>, << "x", "1" >> >>)
PagePSorted == HttpUrl("a.ex.org", << "/", "p" >>, << << "x", "1" >>, << "y", "2" >> >>)
PageQ == HttpUrl("b.ex.org", << "/", "q" >>, << >>)
PageR == HttpUrl("c.other.com", << "/", "r" >>, << >>)
Pdf1 == HttpUrl("a.ex.org", << "/", "f1", ".pdf" >>, << >>)
Pdf2 == HttpUrl("b.ex.org", << "/", "f2", ".PDF" >>, << >>)
Pdf3 == HttpUrl("c.other.com", << "/", "f3", ".pdf" >>, << >>)
Pdf4 == HttpUrl("a.ex.org", << "/", "f4", ".pdf" >>, << >>)
Pdf4Rel == Url("", "", << "/", "f4", ".pdf" >>, << >>, "")
Servlet == HttpUrl("a.ex.org", << "/", "FileDownloadServlet" >>, << << "id", "3" >> >>)
Detail1 == HttpUrl("a.ex.org", << "/", "FrontEndViewTender" >>, << << "id", "1" >> >>)
Detail2 == HttpUrl("b.ex.org", << "/", "FrontEndViewTender" >>, << << "id", "2" >> >>)
Detail3 == HttpUrl("a.ex.org", << "/", "d3" >>, << >>)
Detail4 == HttpUrl("a.ex.org", << "/", "FrontEndViewTender" >>, << << "id", "3" >> >>)

\* every absolute URL of the modelled web, in the order of Python's str comparison
UrlOrder ==
    << SeedUpper, Servlet, Detail1, Detail4, Detail3, Pdf1, Pdf4, SeedUrl,
       PagePSorted, PageP, Detail2, Pdf2, PageQ, Pdf3, PageR >>

\* sorted(S) for a set S of URLs
SortedFrom(order, S) == SelectSeq(order, LAMBDA u : u \in S)

sorted(S) == SortedFrom(UrlOrder, S)

Anchor(href, text) == [href |-> href, text |-> text]

Page(anchors, others) == [html |-> TRUE, anchors |-> anchors, others |-> others]

NoSoup == [html |-> FALSE, anchors |-> << >>, others |-> << >>]

Sites == { "direct", "listing" }

\* what the server of the modelled web serves at a URL
Content(st, u) ==
    LET c == canonicalize_url(u) IN
    CASE c = SeedUrl /\ st = "direct" ->
            Page(<< Anchor(PageQ, "q"), Anchor(PageP, "View More Details"),
                    Anchor(PagePSorted, "p"), Anchor(Pdf1, "f1"),
                    Anchor(PageR, "r"), Anchor(SeedTop, "top") >>,
                 << Pdf2 >>)
      [] c = SeedUrl /\ st = "listing" ->
            Page(<< Anchor(Detail1, "1"), Anchor(Detail2, "2"),
                    Anchor(Detail3, "View More Details"),
                    Anchor(SeedTop, "View More Details"),
                    Anchor(Servlet, "doc") >>,
                 << >>)
      [] c = PagePSorted ->
            Page(<< Anchor(Pdf1, "f1"), Anchor(Servlet, "doc"),
                    Anchor(SeedUrl, "home"), Anchor(PagePSorted, "self") >>, << >>)
      [] c = PageQ ->
            Page(<< Anchor(Pdf2, "f2"), Anchor(Pdf3, "f3"),
                    Anchor(PagePSorted, "p"), Anchor(SeedUpper, "home") >>, << >>)
      [] c = Detail1 ->
            Page(<< Anchor(Pdf1, "f1"), Anchor(Detail4, "4") >>, << >>)
      [] c = Detail3 ->
            Page(<< Anchor(Pdf1, "f1"), Anchor(Pdf4Rel, "f4") >>, << >>)
      [] c = Detail4 ->
            Page(<< Anchor(Pdf4, "f4") >>, << >>)
      [] OTHER -> Page(<< >>, << >>)

\* the HTML a plain GET receives: a page built by scripts comes without its links
DirectContent(st, u) ==
    IF st = "listing" /\ canonicalize_url(u) = Detail3
    THEN Page(<< >>, << >>)
    ELSE Content(st, u)

\* the rule sets robots.txt may hold: (host, path) pairs that are disallowed
RobotsTxts ==
    { { },
      { << "a.ex.org", << "/", "list" >> >> },
      { << "a.ex.org", << "/", "f1", ".pdf" >> >>, << "a.ex.org", << "/", "d3" >> >>,
        << "a.ex.org", << "/", "p" >> >> } }

\* the names a server may give in Content-Disposition
ServerNames == { << "report", ".pdf" >> }

\* what DOWNLOADED_PDFS_DIR may hold when crawl() starts
InitialDirs == { { }, { << "report", ".pdf" >> } }

Range(s) == { s[i] : i \in 1..Len(s) }

\* ----------------------------- state -----------------------------

VARIABLES
    scope, respect_robots, max_pages, max_pdfs,   \* the arguments of crawl()
    render,                                       \* the --render argument
    url_ok,                                       \* the URL argument is a well-formed URL
    backend,                                      \* Chrome and its driver can be started
    site, robots_txt,                             \* the web the run meets
    stop_event,                                   \* the cancellation flag
    pc,                                           \* where crawl() is
    visited_pages, downloaded_urls, pages_crawled, pdfs_downloaded,
    q, page, soup, candidates, todo,              \* locals of crawl()
    dl_url, dl_path, dl_chunks,                   \* locals of download_pdf()
    html, driver,                                 \* locals of get_page_soup()
    strategy,                                     \* history: the fetches of the current get_page_soup
    probed,                                       \* history: the URLs accept_pdf has probed
    parsed,                                       \* history: the pages get_page_soup gave a soup for
    files,                                        \* the names in DOWNLOADED_PDFS_DIR
    log,                                          \* the markers written to the log
    fetched,                                      \* history: the URLs given to get_page_soup
    records,                                      \* history: the downloads that returned a path
    writes,                                       \* history: every open(path, "wb")
    stop_observed,                                \* history: a poll of stop_event returned true
    loop_exit,                                    \* history: how the crawl loop was left
    aborted,                                      \* history: paths whose stream was cut by the flag
    kind, pgid,                                   \* the processes of the machine, by PID
    pid_file,                                     \* the PID in PID_FILE, or NoPid
    spc,                                          \* where each thread of app.py is
    kpid,                                         \* the pid argument of _kill_process_group
    last_check,                                   \* history: the last is_crawler_running
    fn_arg,                                       \* the URL text a URL helper is called with
    fn_out                                        \* what the URL helpers returned for it

args == << scope, respect_robots, max_pages, max_pdfs, render, url_ok, backend,
          site, robots_txt >>
locals == << visited_pages, downloaded_urls, pages_crawled, pdfs_downloaded,
             q, page, soup, candidates, todo >>
dl == << dl_url, dl_path, dl_chunks >>
gps == << html, driver, strategy >>
seen == << probed, parsed >>
hist == << fetched, records, writes >>
ghost == << stop_observed, loop_exit, aborted >>
sup == << kind, pgid, pid_file, spc, kpid, last_check >>
crawler == << args, stop_event, pc, locals, dl, gps, seen, files, log, hist, ghost >>
fn == << fn_arg, fn_out >>
vars == << crawler, sup, fn >>

start_url == SeedUrl

NoPath == << >>

Renders == { "auto", "always", "never" }

Pids == 1..MaxPid

NoPid == 0

\* the two browser tabs that run the script of app.py, and the thread that runs
\* the atexit hook when the app shuts down
Sessions == { "tab1", "tab2" }

Threads == Sessions \cup { "atexit" }

NoCheck == [recorded |-> "nocall", result |-> FALSE, kept |-> FALSE]

NoStrategy == [direct |-> "unused", rendered |-> FALSE]

NoText == << >>

NoCall == [canon |-> NoText, again |-> NoText, other |-> NoText, pdf |-> "uncalled"]

\* no URL helper is called on its own
FnIdle ==
    /\ fn_arg = NoText
    /\ fn_out = NoCall

\* the inputs of a run: under the default rendering every robots.txt and every
\* output directory, and with robots.txt ignored every rendering input
CrawlInputs ==
    /\ scope \in { "page", "host", "domain" }
    /\ max_pages \in 1..MaxPagesBound
    /\ max_pdfs \in 1..MaxPdfsBound
    /\ site \in Sites
    /\ \/ /\ render = "auto" /\ url_ok = TRUE /\ backend = TRUE
          /\ respect_robots \in BOOLEAN
          /\ robots_txt \in (IF respect_robots THEN RobotsTxts ELSE { { } })
          /\ files \in InitialDirs
       \/ /\ render \in Renders
          /\ url_ok \in BOOLEAN
          /\ backend \in (IF render = "never" THEN { TRUE } ELSE BOOLEAN)
          /\ respect_robots = FALSE
          /\ robots_txt = { }
          /\ files = { }

\* the state of pdf_crawler.py when main() is entered
CrawlStart ==
    /\ stop_event = FALSE
    /\ pc = "main"
    /\ visited_pages = { }
    /\ downloaded_urls = { }
    /\ pages_crawled = 0
    /\ pdfs_downloaded = 0
    /\ q = << >>
    /\ page = start_url
    /\ soup = NoSoup
    /\ candidates = { }
    /\ todo = << >>
    /\ dl_url = start_url
    /\ dl_path = NoPath
    /\ dl_chunks = 0
    /\ html = NoSoup
    /\ driver = FALSE
    /\ strategy = NoStrategy
    /\ probed = { }
    /\ parsed = { }
    /\ log = << >>
    /\ fetched = << >>
    /\ records = << >>
    /\ writes = << >>
    /\ stop_observed = FALSE
    /\ loop_exit = "running"
    /\ aborted = { }

\* the state of app.py and of the machine when the app is started: no crawler, no
\* tab opened yet, and PID_FILE absent or left behind by an earlier run
AppStart ==
    /\ kind = [p \in Pids |-> "none"]
    /\ pgid = [p \in Pids |-> NoPid]
    /\ spc = [t \in Threads |-> IF t = "atexit" THEN "up" ELSE "new"]
    /\ kpid = [t \in Threads |-> NoPid]
    /\ last_check = NoCheck

\* a run of pdf_crawler.py, on a machine where app.py takes no step
Init ==
    /\ CrawlInputs
    /\ CrawlStart
    /\ AppStart
    /\ pid_file = NoPid
    /\ FnIdle

\* the app, with the crawler it starts seen as a process only
InitSup ==
    /\ scope = "page" /\ max_pages = 1 /\ max_pdfs = 1 /\ site = "direct"
    /\ render = "auto" /\ url_ok = TRUE /\ backend = TRUE
    /\ respect_robots = FALSE /\ robots_txt = { } /\ files = { }
    /\ CrawlStart
    /\ AppStart
    /\ pid_file \in { NoPid, 1 }
    /\ FnIdle

\* ----------------------------- helpers of crawl() -----------------------------

\* "href" in html
HasHref(h) == h.anchors # << >>

\* what the try block around fetch_with_requests leaves in html: None (the request
\* raised, or the answer is no HTML), or the text the server sent
fetch_with_requests(u) ==
    { NoSoup } \cup (IF url_ok THEN { DirectContent(site, u) } ELSE { })

DirectResult(got) ==
    IF ~got.html THEN "absent" ELSE IF HasHref(got) THEN "links" ELSE "nolinks"

\* the test that sends get_page_soup to the browser
NeedsSelenium(h) == (~h.html \/ ~HasHref(h)) /\ render \in { "auto", "always" }

\* get_page_soup up to the browser: the request is made first, whatever render is
get_page_soup(u, sel, ret) ==
    /\ fetched' = Append(fetched, u)
    /\ \E got \in fetch_with_requests(u) :
         /\ html' = got
         /\ strategy' = [direct |-> DirectResult(got), rendered |-> FALSE]
         /\ pc' = (IF NeedsSelenium(got) THEN sel ELSE ret)
    /\ UNCHANGED driver

\* the ways fetch_with_selenium ends: the rendered page with the live driver, the
\* caught TimeoutException or WebDriverException (None, the driver quit), or an
\* exception of another type, raised before a driver exists or with a live one
fetch_with_selenium(u) ==
    (IF backend /\ url_ok
     THEN { [html |-> Content(site, u), driver |-> TRUE, raised |-> FALSE] }
     ELSE { })
    \cup { [html |-> NoSoup, driver |-> FALSE, raised |-> FALSE],
           [html |-> NoSoup, driver |-> FALSE, raised |-> TRUE] }
    \cup (IF backend
          THEN { [html |-> NoSoup, driver |-> TRUE, raised |-> TRUE] }
          ELSE { })

\* get_page_soup returns: the driver is quit, the locals are gone
GetPageSoupReturns ==
    /\ html' = NoSoup
    /\ driver' = FALSE
    /\ strategy' = NoStrategy

\* the pages get_page_soup has given a soup for, with the page that returns now
ParsedWith(u) == IF html.html THEN parsed \cup { u } ELSE parsed

\* is_allowed_by_robots answering True whatever robots.txt holds
is_allowed_by_robots_Always(u) == TRUE

is_allowed_by_robots(u) == << Lower(u.netloc), u.path >> \notin robots_txt

extract_candidate_pdf_urls_from_soup(sp, base_url) ==
    { normalize_url(sp.anchors[i].href, base_url) : i \in
        { j \in 1..Len(sp.anchors) :
            looks_like_pdf_url(normalize_url(sp.anchors[j].href, base_url)) } }
    \cup
    { normalize_url(sp.others[i], base_url) : i \in
        { j \in 1..Len(sp.others) :
            looks_like_pdf_url(normalize_url(sp.others[j], base_url)) } }

\* re.search(r"view\s*more\s*details", txt, re.I)
ViewMoreDetails(txt) == Lower(txt) = "view more details"

extract_detail_links_for_gepnic(sp, base_url) ==
    { normalize_url(sp.anchors[i].href, base_url) : i \in
        { j \in 1..Len(sp.anchors) :
            \/ Contains(UrlText(normalize_url(sp.anchors[j].href, base_url)),
                        << "FrontEndViewTender" >>)
            \/ ViewMoreDetails(sp.anchors[j].text) } }

\* InScope with the host scope tested like the domain scope
InScope_HostAsDomain(u) ==
    scope \in { "host", "domain" } => same_registered_domain(u, start_url)

\* the scope test of the BFS, on a dequeued page and on a link to enqueue
InScope(u) ==
    /\ scope = "host" => get_host(u) = get_host(start_url)
    /\ scope = "domain" => same_registered_domain(u, start_url)

\* AcceptFence without the test of downloaded_urls
AcceptFence_NoDedup(u) ==
    /\ scope = "page" => get_host(u) = get_host(start_url)
    /\ scope = "host" => get_host(u) = get_host(start_url)
    /\ scope = "domain" => same_registered_domain(u, start_url)

\* accept_pdf up to its network probes: not yet downloaded, and inside the fence
AcceptFence(u) ==
    /\ u \notin downloaded_urls
    /\ scope = "page" => get_host(u) = get_host(start_url)
    /\ scope = "host" => get_host(u) = get_host(start_url)
    /\ scope = "domain" => same_registered_domain(u, start_url)

\* NeedsDrilldown with the test of the candidates dropped
NeedsDrilldown_Always(found) == TRUE

\* page mode: the listing yielded no candidate, so its detail links are probed
NeedsDrilldown(found) == found = { }

PagesBudgetReached == pages_crawled >= max_pages

\* PdfsBudgetReached off by one
PdfsBudgetReached_OffByOne == pdfs_downloaded > max_pdfs

PdfsBudgetReached == pdfs_downloaded >= max_pdfs

\* LinksToEnqueue without the test of visited_pages
RECURSIVE LinksToEnqueue_NoVisitedTest(_, _)
LinksToEnqueue_NoVisitedTest(anchors, base_url) ==
    IF anchors = << >> THEN << >>
    ELSE LET href == normalize_url(anchors[1].href, base_url) IN
         (IF InScope(href) THEN << href >> ELSE << >>)
         \o LinksToEnqueue_NoVisitedTest(Tail(anchors), base_url)

\* the links of a fetched page the BFS appends to the queue
RECURSIVE LinksToEnqueue(_, _)
LinksToEnqueue(anchors, base_url) ==
    IF anchors = << >> THEN << >>
    ELSE LET href == normalize_url(anchors[1].href, base_url) IN
         (IF InScope(href) /\ canonicalize_url(href) \notin visited_pages
          THEN << href >> ELSE << >>)
         \o LinksToEnqueue(Tail(anchors), base_url)

\* ----------------------------- download_pdf -----------------------------

\* the name taken from the path of the URL
PathName(u) ==
    LET n == Len(u.path) IN
    IF n >= 2 /\ Lower(u.path[n]) = ".pdf"
    THEN << u.path[n - 1], u.path[n] >>
    ELSE << "download", ".pdf" >>

\* the names choose_filename may return for a response to url
choose_filename(u) == ServerNames \cup { PathName(u) }

Suffix(i) == " (" \o ToString(i) \o ")"

RECURSIVE NextFree(_, _, _, _)
NextFree(base, ext, i, existing) ==
    LET new_path == base \o << Suffix(i) >> \o ext IN
    IF new_path \in existing THEN NextFree(base, ext, i + 1, existing) ELSE new_path

\* uniquify returning the path as given
uniquify_AsGiven(path, existing) == path

uniquify(path, existing) ==
    IF path \notin existing THEN path
    ELSE NextFree(SubSeq(path, 1, Len(path) - 1), << path[Len(path)] >>, 1, existing)

\* ----------------------------- signals -----------------------------

\* SIGINT or SIGTERM arrives: handle_signal sets the flag
HandleSignal ==
    /\ pc # "done"
    /\ ~stop_event
    /\ stop_event' = TRUE
    /\ UNCHANGED << args, sup, fn, gps, seen, pc, locals, dl, files, log, hist, ghost >>

\* ----------------------------- main -----------------------------

\* main(): the URL is stripped, given a scheme when it has none, and handed to
\* crawl() as it is
Main ==
    /\ pc = "main"
    /\ pc' = "start"
    /\ UNCHANGED << args, sup, fn, gps, seen, stop_event, locals, dl, files, log, hist, ghost >>

\* ----------------------------- get_page_soup: the browser -----------------------------

SelPcs == { "seed_sel", "detail_sel", "bfs_sel" }

\* RetOf sending fetch_with_selenium back to its own start
RetOf_Retry(p) == p

\* where get_page_soup goes on when fetch_with_selenium has returned
RetOf(p) ==
    CASE p = "seed_sel" -> "seed_ret"
      [] p = "detail_sel" -> "detail_ret"
      [] OTHER -> "bfs_ret"

\* the url argument of the get_page_soup that is running
GpsUrl ==
    CASE pc \in { "seed_sel", "seed_ret" } -> start_url
      [] pc \in { "detail_sel", "detail_ret" } -> Head(todo)
      [] OTHER -> page

\* the fallback of get_page_soup: fetch_with_selenium replaces html; an exception it
\* does not catch leaves crawl() and ends in the handler of main()
FetchWithSelenium ==
    /\ pc \in SelPcs
    /\ \E r \in fetch_with_selenium(GpsUrl) :
         /\ html' = r.html
         /\ driver' = r.driver
         /\ strategy' = [strategy EXCEPT !.rendered = TRUE]
         /\ IF r.raised
            THEN /\ pc' = "done"
                 /\ log' = Append(log, "fatal")
                 /\ loop_exit' = "fatal"
            ELSE /\ pc' = RetOf(pc)
                 /\ UNCHANGED << log, loop_exit >>
    /\ UNCHANGED << args, sup, fn, seen, stop_event, locals, dl, files, hist, stop_observed,
                    aborted >>

\* ----------------------------- crawl: page mode -----------------------------

\* page mode, robots gate on the seed
PageRobotsGate ==
    /\ pc = "start"
    /\ scope = "page"
    /\ IF respect_robots /\ ~is_allowed_by_robots(start_url)
       THEN /\ log' = log \o << "robots_disallow", "completed" >>
            /\ pc' = "done"
            /\ loop_exit' = "finished"
       ELSE /\ log' = log
            /\ pc' = "page_seed"
            /\ UNCHANGED loop_exit
    /\ UNCHANGED << args, sup, fn, gps, seen, stop_event, locals, dl, files, hist, stop_observed, aborted >>

\* page mode, the fetch of the seed
PageSeed ==
    /\ pc = "page_seed"
    /\ get_page_soup(start_url, "seed_sel", "seed_ret")
    /\ UNCHANGED << args, sup, fn, seen, stop_event, locals, dl, files, log, records, writes,
                    ghost >>

\* page mode, the soup of the seed and the extraction of its candidates
PageSeedSoup ==
    /\ pc = "seed_ret"
    /\ GetPageSoupReturns
    /\ soup' = html
    /\ parsed' = ParsedWith(start_url)
    /\ IF ~html.html
       THEN /\ log' = Append(log, "completed")
            /\ pc' = "done"
            /\ loop_exit' = "finished"
            /\ UNCHANGED << candidates, todo >>
       ELSE LET found == extract_candidate_pdf_urls_from_soup(html, start_url) IN
            /\ log' = log
            /\ UNCHANGED loop_exit
            /\ candidates' = found
            /\ IF NeedsDrilldown(found)
               THEN /\ todo' = sorted(extract_detail_links_for_gepnic(html, start_url))
                    /\ pc' = "page_detail"
               ELSE /\ todo' = sorted(found)
                    /\ pc' = "page_cand"
    /\ UNCHANGED << args, sup, fn, probed, stop_event, visited_pages, downloaded_urls,
                    pages_crawled, pdfs_downloaded, q, page, dl, files, hist,
                    stop_observed, aborted >>

\* page mode, one iteration of the loop over the detail links, up to the fetch
PageDetail ==
    /\ pc = "page_detail"
    /\ IF todo = << >> \/ stop_event
       THEN /\ todo' = sorted(candidates)
            /\ pc' = "page_cand"
            /\ stop_observed' = (stop_observed \/ todo # << >>)
            /\ loop_exit' = (IF todo # << >> THEN "stopped" ELSE loop_exit)
            /\ UNCHANGED << fetched, gps >>
       ELSE LET durl == Head(todo) IN
            /\ UNCHANGED << stop_observed, loop_exit >>
            /\ IF \/ get_host(durl) # get_host(start_url)
                  \/ respect_robots /\ ~is_allowed_by_robots(durl)
               THEN /\ todo' = Tail(todo)
                    /\ pc' = "page_detail"
                    /\ UNCHANGED << fetched, gps >>
               ELSE /\ get_page_soup(durl, "detail_sel", "detail_ret")
                    /\ UNCHANGED todo
    /\ UNCHANGED << args, sup, fn, seen, stop_event, visited_pages, downloaded_urls,
                    pages_crawled, pdfs_downloaded, q, page, soup, candidates, dl, files,
                    log, records, writes, aborted >>

\* page mode, the soup of a detail page and the extraction of its candidates
PageDetailSoup ==
    /\ pc = "detail_ret"
    /\ GetPageSoupReturns
    /\ LET durl == Head(todo) IN
         /\ parsed' = ParsedWith(durl)
         /\ candidates' = candidates \cup
               (IF html.html
                THEN extract_candidate_pdf_urls_from_soup(html, durl)
                ELSE { })
    /\ todo' = Tail(todo)
    /\ pc' = "page_detail"
    /\ UNCHANGED << args, sup, fn, probed, stop_event, visited_pages, downloaded_urls,
                    pages_crawled, pdfs_downloaded, q, page, soup, dl, files, log, hist,
                    ghost >>

\* the URLs the server answers a HEAD for with Content-Type application/pdf
HeadPdf == { Pdf1, Pdf2, Pdf3, Pdf4, Servlet }

\* what head_says_pdf may return: the verdict of the Content-Type, or False when
\* the request raised
head_says_pdf(u) == IF u \in HeadPdf THEN BOOLEAN ELSE { FALSE }

\* CandidatesPollStop never seeing the flag
CandidatesPollStop_Never == FALSE

\* stop_event.is_set() at the head of an iteration of a loop over the candidates
CandidatesPollStop == stop_event

\* one iteration of a loop over the sorted candidates; robots_gate is the robots
\* test of the BFS loop, after_loop the place the loop falls through to, and
\* last_loop tells that crawl() ends after this loop
CandidateStep(robots_gate, here, after_loop, last_loop) ==
    IF todo = << >>
    THEN /\ pc' = after_loop
         /\ loop_exit' = (IF last_loop /\ loop_exit = "running" THEN "finished" ELSE loop_exit)
         /\ UNCHANGED << todo, log, dl_url, stop_observed, probed >>
    ELSE IF CandidatesPollStop
    THEN /\ pc' = after_loop
         /\ stop_observed' = TRUE
         /\ loop_exit' = (IF last_loop THEN "stopped" ELSE loop_exit)
         /\ UNCHANGED << todo, log, dl_url, probed >>
    ELSE IF PdfsBudgetReached
    THEN /\ pc' = after_loop
         /\ log' = Append(log, "reached_max_pdfs")
         /\ loop_exit' = (IF last_loop /\ loop_exit = "running" THEN "finished" ELSE loop_exit)
         /\ UNCHANGED << todo, dl_url, stop_observed, probed >>
    ELSE LET u == Head(todo) IN
         /\ todo' = Tail(todo)
         /\ UNCHANGED << log, stop_observed, loop_exit >>
         /\ IF robots_gate /\ respect_robots /\ ~is_allowed_by_robots(u)
            THEN pc' = here /\ UNCHANGED << dl_url, probed >>
            ELSE IF ~AcceptFence(u)
            THEN pc' = here /\ UNCHANGED << dl_url, probed >>
            ELSE /\ probed' = probed \cup { u }
                 /\ \E head \in head_says_pdf(u), sniff \in BOOLEAN :
                      IF head \/ sniff
                      THEN pc' = "download" /\ dl_url' = u
                      ELSE pc' = here /\ UNCHANGED dl_url

\* page mode, one iteration of the loop over sorted(candidates)
PageCandidates ==
    /\ pc = "page_cand"
    /\ CandidateStep(FALSE, "page_cand", "page_finish", TRUE)
    /\ UNCHANGED << args, sup, fn, gps, parsed, stop_event, visited_pages, downloaded_urls, pages_crawled,
                    pdfs_downloaded, q, page, soup, candidates, dl_path, dl_chunks,
                    files, hist, aborted >>

\* page mode, the end of crawl()
PageFinish ==
    /\ pc = "page_finish"
    /\ log' = Append(log, "completed")
    /\ pc' = "done"
    /\ UNCHANGED << args, sup, fn, gps, seen, stop_event, locals, dl, files, hist, ghost >>

\* ----------------------------- crawl: host and domain modes -----------------------------

BfsBegin ==
    /\ pc = "start"
    /\ scope # "page"
    /\ q' = << start_url >>
    /\ pc' = "bfs_loop"
    /\ UNCHANGED << args, sup, fn, gps, seen, stop_event, visited_pages, downloaded_urls, pages_crawled,
                    pdfs_downloaded, page, soup, candidates, todo, dl, files, log,
                    hist, ghost >>

\* the loop test and the dequeue of one page, up to the fetch
BfsDequeue ==
    /\ pc = "bfs_loop"
    /\ IF q = << >> \/ stop_event
       THEN /\ pc' = "bfs_finish"
            /\ stop_observed' = (stop_observed \/ q # << >>)
            /\ loop_exit' = (IF q # << >> THEN "stopped" ELSE "finished")
            /\ UNCHANGED << q, page, visited_pages, pages_crawled, log >>
       ELSE LET p == Head(q)
                page_canon == canonicalize_url(p)
            IN
            /\ q' = Tail(q)
            /\ page' = p
            /\ UNCHANGED << stop_observed, loop_exit >>
            /\ IF page_canon \in visited_pages
               THEN /\ pc' = "bfs_loop"
                    /\ UNCHANGED << visited_pages, pages_crawled, log >>
               ELSE IF respect_robots /\ ~is_allowed_by_robots(p)
               THEN /\ log' = Append(log, "robots_disallow")
                    /\ visited_pages' = visited_pages \cup { page_canon }
                    /\ pc' = "bfs_loop"
                    /\ UNCHANGED pages_crawled
               ELSE IF ~InScope(p)
               THEN /\ pc' = "bfs_loop"
                    /\ UNCHANGED << visited_pages, pages_crawled, log >>
               ELSE /\ visited_pages' = visited_pages \cup { page_canon }
                    /\ pages_crawled' = pages_crawled + 1
                    /\ pc' = "bfs_fetch"
                    /\ UNCHANGED log
    /\ UNCHANGED << args, sup, fn, gps, seen, stop_event, downloaded_urls, pdfs_downloaded, soup, candidates,
                    todo, dl, files, hist, aborted >>

\* the fetch of the dequeued page
BfsFetch ==
    /\ pc = "bfs_fetch"
    /\ get_page_soup(page, "bfs_sel", "bfs_ret")
    /\ UNCHANGED << args, sup, fn, seen, stop_event, locals, dl, files, log, records, writes,
                    ghost >>

\* the soup of the dequeued page and the extraction of its candidates
BfsSoup ==
    /\ pc = "bfs_ret"
    /\ GetPageSoupReturns
    /\ soup' = html
    /\ parsed' = ParsedWith(page)
    /\ IF ~html.html
       THEN /\ pc' = (IF PagesBudgetReached THEN "bfs_finish" ELSE "bfs_loop")
            /\ loop_exit' = (IF PagesBudgetReached THEN "finished" ELSE loop_exit)
            /\ UNCHANGED todo
       ELSE /\ todo' = sorted(extract_candidate_pdf_urls_from_soup(html, page))
            /\ pc' = "bfs_cand"
            /\ UNCHANGED loop_exit
    /\ UNCHANGED << args, sup, fn, probed, stop_event, visited_pages, downloaded_urls,
                    pages_crawled, pdfs_downloaded, q, page, candidates, dl, files, log,
                    hist, stop_observed, aborted >>

\* one iteration of the loop over sorted(pdf_candidates)
BfsCandidates ==
    /\ pc = "bfs_cand"
    /\ CandidateStep(TRUE, "bfs_cand", "bfs_after", FALSE)
    /\ UNCHANGED << args, sup, fn, gps, parsed, stop_event, visited_pages, downloaded_urls, pages_crawled,
                    pdfs_downloaded, q, page, soup, candidates, dl_path, dl_chunks,
                    files, hist, aborted >>

\* the page budget test after the candidates, and the enqueue of the page's links
BfsEnqueue ==
    /\ pc = "bfs_after"
    /\ IF PagesBudgetReached
       THEN pc' = "bfs_finish" /\ loop_exit' = "finished" /\ UNCHANGED q
       ELSE /\ q' = q \o LinksToEnqueue(soup.anchors, page)
            /\ pc' = "bfs_loop"
            /\ UNCHANGED loop_exit
    /\ UNCHANGED << args, sup, fn, gps, seen, stop_event, visited_pages, downloaded_urls, pages_crawled,
                    pdfs_downloaded, page, soup, candidates, todo, dl, files, log,
                    hist, stop_observed, aborted >>

\* the end of crawl() after the BFS loop
BfsFinish ==
    /\ pc = "bfs_finish"
    /\ log' = Append(log, "completed")
    /\ pc' = "done"
    /\ UNCHANGED << args, sup, fn, gps, seen, stop_event, locals, dl, files, hist, ghost >>

\* ----------------------------- download_pdf, step by step -----------------------------

CandPc == IF scope = "page" THEN "page_cand" ELSE "bfs_cand"

\* download_pdf returns: its locals are gone
DownloadReturns ==
    /\ dl_url' = start_url
    /\ dl_path' = NoPath
    /\ dl_chunks' = 0

\* the request fails, or the body is no PDF after the sniff: None, nothing written
DownloadRefused ==
    /\ pc = "download"
    /\ pc' = CandPc
    /\ DownloadReturns
    /\ UNCHANGED << args, sup, fn, gps, seen, stop_event, locals, files, log, hist, ghost >>

\* the response is a PDF: the name is chosen and made unique, the file is opened
DownloadOpen ==
    /\ pc = "download"
    /\ \E filename \in choose_filename(dl_url) :
         LET path == uniquify(filename, files) IN
         /\ dl_path' = path
         /\ files' = files \cup { path }
         /\ writes' = Append(writes, [url |-> dl_url, path |-> path,
                                      existed |-> path \in files])
    /\ dl_chunks' = 0
    /\ pc' = "stream"
    /\ UNCHANGED << args, sup, fn, gps, seen, stop_event, locals, dl_url, log, fetched, records, ghost >>

\* a chunk arrives: the flag is polled, then the chunk is written
DownloadChunk ==
    /\ pc = "stream"
    /\ dl_chunks < MaxChunks
    /\ IF stop_event
       THEN /\ pc' = CandPc
            /\ stop_observed' = TRUE
            /\ aborted' = aborted \cup { dl_path }
            /\ DownloadReturns
       ELSE /\ dl_chunks' = dl_chunks + 1
            /\ UNCHANGED << pc, stop_observed, aborted, dl_url, dl_path >>
    /\ UNCHANGED << args, sup, fn, gps, seen, stop_event, locals, files, log, hist, loop_exit >>

\* the stream raises: the except branch returns None
DownloadError ==
    /\ pc = "stream"
    /\ pc' = CandPc
    /\ DownloadReturns
    /\ UNCHANGED << args, sup, fn, gps, seen, stop_event, locals, files, log, hist, ghost >>

\* the stream ends: download_pdf returns the path and the caller counts it
DownloadDone ==
    /\ pc = "stream"
    /\ records' = Append(records, [url |-> dl_url, path |-> dl_path])
    /\ downloaded_urls' = downloaded_urls \cup { dl_url }
    /\ pdfs_downloaded' = pdfs_downloaded + 1
    /\ pc' = CandPc
    /\ DownloadReturns
    /\ UNCHANGED << args, sup, fn, gps, seen, stop_event, visited_pages, pages_crawled, q, page, soup,
                    candidates, todo, files, log, fetched, writes, ghost >>

Next ==
    \/ HandleSignal
    \/ Main
    \/ FetchWithSelenium
    \/ PageRobotsGate
    \/ PageSeed
    \/ PageSeedSoup
    \/ PageDetail
    \/ PageDetailSoup
    \/ PageCandidates
    \/ PageFinish
    \/ BfsBegin
    \/ BfsDequeue
    \/ BfsFetch
    \/ BfsSoup
    \/ BfsCandidates
    \/ BfsEnqueue
    \/ BfsFinish
    \/ DownloadRefused
    \/ DownloadOpen
    \/ DownloadChunk
    \/ DownloadError
    \/ DownloadDone

Spec == Init /\ [][Next]_vars

\* the runs into an empty output directory with the largest PDF budget
InitLive == Init /\ files = { } /\ max_pdfs = MaxPdfsBound

\* a step of the crawler itself: every step but the arrival of a signal
CrawlStep == Next /\ stop_event' = stop_event

\* the crawler process is not starved, and every network, render and download
\* operation returns: a step of the crawler that is possible is taken
SpecLive == InitLive /\ [][Next]_vars /\ WF_vars(CrawlStep)

\* ----------------------------- app.py: the machine -----------------------------

\* psutil.pid_exists
pid_exists(p) == p # NoPid /\ kind[p] # "none"

\* the live members of a process group
Group(g) == { r \in Pids : kind[r] # "none" /\ pgid[r] = g }

\* a PID the system can give to a new process: not in use as a PID nor as the id
\* of a group that still has members
FreePid(p) == kind[p] = "none" /\ Group(p) = { }

\* the processes after some of them are gone
Without(gone) ==
    /\ kind' = [r \in Pids |-> IF r \in gone THEN "none" ELSE kind[r]]
    /\ pgid' = [r \in Pids |-> IF r \in gone THEN NoPid ELSE pgid[r]]

\* os.killpg(pgid, SIGTERM): the crawler's handler sets its flag and a browser
\* shuts down, both exit later; a program with no handler is ended
killpg_SIGTERM(g) == Without({ r \in Group(g) : kind[r] = "other" })

\* os.killpg(pgid, SIGKILL): every member of the group is ended
killpg_SIGKILL(g) == Without(Group(g))

\* a crawler starts a browser: a child in the crawler's process group
BrowserStarts ==
    /\ \E c \in Pids, p \in Pids :
         /\ kind[c] = "crawler"
         /\ FreePid(p)
         /\ kind' = [kind EXCEPT ![p] = "browser"]
         /\ pgid' = [pgid EXCEPT ![p] = pgid[c]]
    /\ UNCHANGED << crawler, fn, pid_file, spc, kpid, last_check >>

\* a process ends by itself: the crawler is through or has seen its flag, the
\* browser has shut down, a program of another user is over
ProcessExits ==
    /\ \E p \in Pids :
         /\ kind[p] # "none"
         /\ Without({ p })
    /\ UNCHANGED << crawler, fn, pid_file, spc, kpid, last_check >>

\* a program that is no crawler is started and is given a free PID
OtherStarts ==
    /\ \E p \in Pids :
         /\ FreePid(p)
         /\ kind' = [kind EXCEPT ![p] = "other"]
         /\ pgid' = [pgid EXCEPT ![p] = p]
    /\ UNCHANGED << crawler, fn, pid_file, spc, kpid, last_check >>

\* ----------------------------- app.py: the supervisor -----------------------------

AppUp == spc["atexit"] = "up"

\* where a thread is after _kill_process_group and the removal of PID_FILE
AfterKill(t) == IF t = "atexit" THEN "down" ELSE "idle"

\* is_crawler_running accepting whatever process has the recorded PID
IsOurCrawler_AnyProcess(p) == TRUE

\* the test of is_crawler_running that the process is the crawler: its name holds
\* 'python' and its command line 'pdf_crawler.py'
IsOurCrawler(p) == kind[p] = "crawler"

\* is_crawler_running, the first call of the script run for the start/stop buttons
IsCrawlerRunning(s) ==
    /\ AppUp
    /\ spc[s] = "idle"
    /\ LET found == pid_file # NoPid /\ pid_exists(pid_file) /\ IsOurCrawler(pid_file) IN
         /\ spc' = [spc EXCEPT ![s] = IF found THEN "running" ELSE "not_running"]
         /\ pid_file' = (IF found THEN pid_file ELSE NoPid)
         /\ last_check' = [recorded |-> IF pid_file = NoPid THEN "nofile"
                                         ELSE kind[pid_file],
                           result |-> found,
                           kept |-> pid_file' # NoPid]
    /\ UNCHANGED << crawler, fn, kind, pgid, kpid >>

\* the script run ends with no button pressed
Rerun(s) ==
    /\ AppUp
    /\ spc[s] \in { "running", "not_running" }
    /\ spc' = [spc EXCEPT ![s] = "idle"]
    /\ UNCHANGED << crawler, fn, kind, pgid, pid_file, kpid, last_check >>

\* start_crawler, reached when is_crawler_running returned False and the start
\* button is pressed
StartCrawler(s) ==
    /\ AppUp
    /\ spc[s] = "not_running"
    /\ \E p \in Pids :
         /\ FreePid(p)
         /\ kind' = [kind EXCEPT ![p] = "crawler"]
         /\ pgid' = [pgid EXCEPT ![p] = p]
         /\ pid_file' = p
    /\ spc' = [spc EXCEPT ![s] = "idle"]
    /\ UNCHANGED << crawler, fn, kpid, last_check >>

\* the callers of _kill_process_group, up to its wait: PID_FILE is read and, when
\* the PID exists, its group gets SIGTERM; otherwise PID_FILE is removed
KillRecorded(t) ==
    IF pid_file = NoPid
    THEN /\ spc' = [spc EXCEPT ![t] = AfterKill(t)]
         /\ UNCHANGED << kind, pgid, pid_file, kpid >>
    ELSE IF pid_exists(pid_file)
    THEN /\ killpg_SIGTERM(pgid[pid_file])
         /\ kpid' = [kpid EXCEPT ![t] = pid_file]
         /\ spc' = [spc EXCEPT ![t] = "kill_wait"]
         /\ UNCHANGED pid_file
    ELSE /\ pid_file' = NoPid
         /\ spc' = [spc EXCEPT ![t] = AfterKill(t)]
         /\ UNCHANGED << kind, pgid, kpid >>

\* stop_crawler, reached when is_crawler_running returned True and the stop button
\* is pressed
StopCrawler(s) ==
    /\ AppUp
    /\ spc[s] = "running"
    /\ KillRecorded(s)
    /\ UNCHANGED << crawler, fn, last_check >>

\* cleanup_on_start, the first thing a new session runs
CleanupOnStart(s) ==
    /\ AppUp
    /\ spc[s] = "new"
    /\ KillRecorded(s)
    /\ UNCHANGED << crawler, fn, last_check >>

\* cleanup_on_exit, the atexit hook
CleanupOnExit ==
    /\ AppUp
    /\ KillRecorded("atexit")
    /\ UNCHANGED << crawler, fn, last_check >>

\* _kill_process_group after its wait: SIGKILL to the group when the PID still
\* exists; then the caller removes PID_FILE
KillProcessGroupReturns(t) ==
    /\ spc[t] = "kill_wait"
    /\ IF pid_exists(kpid[t])
       THEN killpg_SIGKILL(pgid[kpid[t]])
       ELSE UNCHANGED << kind, pgid >>
    /\ pid_file' = NoPid
    /\ kpid' = [kpid EXCEPT ![t] = NoPid]
    /\ spc' = [spc EXCEPT ![t] = AfterKill(t)]
    /\ UNCHANGED << crawler, fn, last_check >>

NextSup ==
    \/ BrowserStarts
    \/ ProcessExits
    \/ OtherStarts
    \/ \E s \in Sessions : IsCrawlerRunning(s)
    \/ \E s \in Sessions : Rerun(s)
    \/ \E s \in Sessions : StartCrawler(s)
    \/ \E s \in Sessions : StopCrawler(s)
    \/ \E s \in Sessions : CleanupOnStart(s)
    \/ CleanupOnExit
    \/ \E t \in Threads : KillProcessGroupReturns(t)

SpecSup == InitSup /\ [][NextSup]_vars

\* ----------------------------- the URL helpers on their own -----------------------------

\* canonicalize_url from text to text: the URL is parsed, made canonical and
\* written out again
CanonicalText(t) == UrlText(canonicalize_url(urlparse(t)))

TestPaths ==
    { << "/", "list" >>, << "/", "f1", ".pdf" >>, << "/", "f2", ".PDF" >>,
      << "/", "FileDownloadServlet" >>, << "/", "filedownloadservlet" >>,
      << "/", "FILEDOWNLOADSERVLET" >>, << "/", "FrontEndFileDownloadServlet" >>,
      << "/", "downloadFile" >>, << "/", "documentDownload" >>,
      << "/", "getDocument" >> }

TestPairs == { "x", "y" } \X { "", "1", "a%20b" }

TestQueries == UNION { [1..n -> TestPairs] : n \in 0..MaxQueryLen }

\* the URL texts the helpers are called with
TestUrls ==
    { UrlText(Url(s, h, p, qq, f)) :
        s \in { "http", "HTTP" }, h \in { "a.ex.org", "A.EX.ORG" },
        p \in TestPaths, qq \in TestQueries, f \in { "", "top" } }

\* the URL texts that differ from t in the order of the query parameters only
Reorderings(t) ==
    LET r == urlparse(t)
        n == Len(r.query)
    IN  { UrlText([r EXCEPT !.scheme = t[1],
                            !.query = [i \in 1..n |-> r.query[f[i]]]]) :
            f \in { g \in [1..n -> 1..n] : \A a, b \in 1..n : g[a] = g[b] => a = b } }

InitFn ==
    /\ scope = "page" /\ max_pages = 1 /\ max_pdfs = 1 /\ site = "direct"
    /\ render = "auto" /\ url_ok = TRUE /\ backend = TRUE
    /\ respect_robots = FALSE /\ robots_txt = { } /\ files = { }
    /\ CrawlStart
    /\ AppStart
    /\ pid_file = NoPid
    /\ fn_arg \in TestUrls
    /\ fn_out = NoCall

\* canonicalize_url(u)
CallCanonicalizeUrl ==
    /\ fn_out.canon = NoText
    /\ fn_out' = [fn_out EXCEPT !.canon = CanonicalText(fn_arg)]
    /\ UNCHANGED << crawler, sup, fn_arg >>

\* canonicalize_url(canonicalize_url(u))
CallCanonicalizeUrlAgain ==
    /\ fn_out.canon # NoText
    /\ fn_out.again = NoText
    /\ fn_out' = [fn_out EXCEPT !.again = CanonicalText(fn_out.canon)]
    /\ UNCHANGED << crawler, sup, fn_arg >>

\* canonicalize_url(v) for a URL v that is u with its query parameters reordered
CallCanonicalizeUrlReordered ==
    /\ fn_out.other = NoText
    /\ \E v \in Reorderings(fn_arg) :
         fn_out' = [fn_out EXCEPT !.other = CanonicalText(v)]
    /\ UNCHANGED << crawler, sup, fn_arg >>

\* looks_like_pdf_url(u)
CallLooksLikePdfUrl ==
    /\ fn_out.pdf = "uncalled"
    /\ fn_out' = [fn_out EXCEPT
                    !.pdf = IF looks_like_pdf_url(urlparse(fn_arg)) THEN "yes" ELSE "no"]
    /\ UNCHANGED << crawler, sup, fn_arg >>

NextFn ==
    \/ CallCanonicalizeUrl
    \/ CallCanonicalizeUrlAgain
    \/ CallCanonicalizeUrlReordered
    \/ CallLooksLikePdfUrl

SpecFn == InitFn /\ [][NextFn]_vars

\* ----------------------------- properties -----------------------------

\* C1: with positive budgets, pages_crawled never exceeds max_pages and
\* pdfs_downloaded never exceeds max_pdfs, at every point of the run and in every scope.
C1_CountersWithinBudgets ==
    /\ pages_crawled <= max_pages
    /\ pdfs_downloaded <= max_pdfs

\* a finished run that used up both budgets, each larger than one
C1_BothBudgetsReached ==
    /\ pc = "done"
    /\ max_pages > 1 /\ pages_crawled = max_pages
    /\ max_pdfs > 1 /\ pdfs_downloaded = max_pdfs

\* C2: in every scope the number of calls of get_page_soup never exceeds max_pages.
C2_FetchesWithinMaxPages == Len(fetched) <= max_pages

\* C3: under host or domain scope, once pdfs_downloaded has reached max_pdfs
\* no further page is fetched.
C3_NoFetchAfterPdfCeiling ==
    [][(scope # "page" /\ pdfs_downloaded >= max_pdfs) => fetched' = fetched]_vars

\* C4: a file whose streaming was cut by the cancellation flag is no longer in the
\* output directory once download_pdf has returned.
C4_NoPartialFileAfterCancel == aborted \cap files = { }

\* C5: a run whose loop was left because the cancellation flag was seen does not
\* log the 'completed successfully' marker.
C5_StoppedRunNotCompleted ==
    (pc = "done" /\ loop_exit = "stopped") => "completed" \notin Range(log)

\* C6: under host scope every fetched page has the host of the seed, and under
\* domain scope every fetched page has the registered domain of the seed.
C6_FetchedPagesInScope ==
    \A i \in 1..Len(fetched) :
        /\ scope = "host" => get_host(fetched[i]) = get_host(start_url)
        /\ scope = "domain" => RegisteredDomain(fetched[i]) = RegisteredDomain(start_url)

\* a host-scope run that fetched three pages of a site whose seed links to other hosts
C6_HostRunPastForeignLinks ==
    /\ scope = "host" /\ site = "direct"
    /\ Len(fetched) = 3
    /\ \E a \in Range(Content(site, start_url).anchors) :
         get_host(a.href) # get_host(start_url)
    /\ \E i \in 2..Len(fetched) : canonicalize_url(fetched[i]) # canonicalize_url(start_url)

\* C7: under page scope the first fetch is the seed, detail pages are fetched only
\* when the seed page yields no PDF candidate, and every other fetch is a detail
\* link of the seed page itself.
C7_PageScopeOneLevel ==
    scope = "page" =>
        /\ Len(fetched) >= 1 => fetched[1] = start_url
        /\ Len(fetched) >= 2 =>
             /\ soup.html
             /\ extract_candidate_pdf_urls_from_soup(soup, start_url) = { }
        /\ \A i \in 2..Len(fetched) :
             fetched[i] \in extract_detail_links_for_gepnic(soup, start_url)

\* a finished page-scope run that fetched and parsed the detail page Detail1, whose
\* own detail link Detail4 is not on the seed page
C7_DrilldownDone ==
    /\ scope = "page" /\ pc = "done"
    /\ Detail1 \in Range(fetched)
    /\ Pdf1 \in candidates
    /\ Detail4 \notin extract_detail_links_for_gepnic(soup, start_url)
    /\ Len(fetched) >= 3

\* C8: no source URL is in two of the run's successful downloads.
C8_NoUrlDownloadedTwice ==
    \A i, j \in 1..Len(records) : records[i].url = records[j].url => i = j

\* the BFS has been through the candidates of PageP, which links Pdf1 again,
\* after Pdf1 was downloaded from the seed page
C8_SeenAgainAfterDownload ==
    /\ pc = "bfs_after"
    /\ canonicalize_url(page) = PagePSorted
    /\ Pdf1 \in extract_candidate_pdf_urls_from_soup(soup, page)
    /\ is_allowed_by_robots(Pdf1)
    /\ records # << >> /\ records[1].url = Pdf1
    /\ ~stop_event

\* C9: download_pdf never opens for writing a path that is already in the output
\* directory, and no two writes of a run share a path.
C9_NoOverwrite ==
    /\ \A i \in 1..Len(writes) : ~writes[i].existed
    /\ \A i, j \in 1..Len(writes) : writes[i].path = writes[j].path => i = j
    /\ \A i, j \in 1..Len(records) : records[i].path = records[j].path => i = j

\* two downloads were given the same name by the server: the second got the suffix
C9_CollisionSuffixed ==
    /\ Len(records) = 2
    /\ files \ { records[1].path, records[2].path } = { }
    /\ records[1].path = << "report", ".pdf" >>
    /\ records[2].path = << "report", " (1)", ".pdf" >>

\* robots.txt disallows the seed
SeedDisallowed == << get_host(start_url), start_url.path >> \in robots_txt

\* C10 as stated: with respect_robots true and the seed disallowed, the finished run
\* has fetched no page, downloaded no PDF, logged a robots-disallow entry and ended
\* with the 'completed successfully' marker.
C10_AsStated ==
    (pc = "done" /\ respect_robots /\ SeedDisallowed) =>
        /\ fetched = << >>
        /\ pdfs_downloaded = 0 /\ writes = << >>
        /\ "robots_disallow" \in Range(log)
        /\ log[Len(log)] = "completed"

\* C10 as amended: the same, the robots-disallow entry being logged unless the loop
\* was left on the cancellation flag before the seed was dequeued.
C10_RobotsDisallowedSeed ==
    (pc = "done" /\ respect_robots /\ SeedDisallowed) =>
        /\ fetched = << >>
        /\ pdfs_downloaded = 0 /\ writes = << >>
        /\ loop_exit # "stopped" => "robots_disallow" \in Range(log)
        /\ log[Len(log)] = "completed"

\* a finished host-scope run on a disallowed seed
C10_DisallowedRunDone ==
    /\ pc = "done" /\ respect_robots /\ SeedDisallowed
    /\ scope = "host"
    /\ log = << "robots_disallow", "completed" >>

\* C11: get_page_soup uses the fetches its render argument selects: 'never' the
\* request only; 'always' the browser only, with no request issued; 'auto' the
\* request, and the browser exactly when the request gave nothing or a text
\* without hyperlink markup.
C11_StrategiesFollowRender ==
    pc \in { "seed_ret", "detail_ret", "bfs_ret" } =>
        /\ render = "never" => strategy.direct # "unused" /\ ~strategy.rendered
        /\ render = "always" => strategy.direct = "unused" /\ strategy.rendered
        /\ render = "auto" =>
             /\ strategy.direct # "unused"
             /\ strategy.rendered <=> strategy.direct \in { "absent", "nolinks" }

\* C12: a failure while one page is fetched, of the request or of the browser and
\* of any exception type, is no content for that page and never ends the run: no
\* run ends in the 'Fatal error' handler of main().
C12_FetchFailureNeverFatal == "fatal" \notin Range(log)

\* the links of the pages that were parsed
LinksOfParsed ==
    UNION { { normalize_url(DirectContent(site, p).anchors[i].href, p) :
                i \in 1..Len(DirectContent(site, p).anchors) } \cup
            { normalize_url(Content(site, p).anchors[i].href, p) :
                i \in 1..Len(Content(site, p).anchors) } : p \in parsed }

\* C13: a URL linked from a crawled page, answered by the server with Content-Type
\* application/pdf to a HEAD and holding no '.pdf', is certified and downloaded: in
\* a run that ended with neither the cancellation flag seen nor the PDF budget
\* used up, every such URL inside the fence has gone to the probes of accept_pdf.
C13_HeadPdfLinkCertified ==
    (pc = "done" /\ loop_exit = "finished" /\ ~stop_observed
        /\ pdfs_downloaded < max_pdfs) =>
        \A u \in LinksOfParsed :
            ( /\ u \in HeadPdf
              /\ ~Contains(LowerText(UrlText(u)), << ".pdf" >>)
              /\ get_host(u) = get_host(start_url) ) => u \in probed

\* the configuration errors: a malformed seed URL, or render=always with no
\* rendering backend
ConfigError == ~url_ok \/ (render = "always" /\ ~backend)

\* C14: a run with a configuration error fetches nothing, never logs the
\* 'completed successfully' marker, and ends failed.
C14_ConfigErrorFailsBeforeFetch ==
    ConfigError =>
        /\ fetched = << >>
        /\ "completed" \notin Range(log)
        /\ pc = "done" => loop_exit = "fatal"

\* C19: every PDF candidate discovered on a page has been gone through by the
\* candidate loop before a page discovered later is fetched, under every scope: when
\* get_page_soup is called, no candidate of an earlier page is still waiting.
C19_CandidatesBeforeLaterPages ==
    [][fetched' # fetched =>
         (IF scope = "page" THEN candidates = { } ELSE todo = << >>)]_vars

\* the step that appends the links of a page to the queue
IsEnqueue == pc = "bfs_after" /\ pc' = "bfs_loop"

C15_AtMostOneCrawler ==
    Cardinality({ p \in Pids : kind[p] = "crawler" }) <= 1

\* C16: when _kill_process_group returns, no process of the group of the PID it
\* was given is alive (SIGKILL is only sent by a call that has sent SIGTERM).
C16_NoSurvivorAfterKill ==
    [][\A t \in Threads :
         (spc[t] = "kill_wait" /\ spc'[t] # "kill_wait") =>
             \A r \in Pids : ~(kind'[r] # "none" /\ pgid'[r] = kpid[t])]_vars

\* C17: is_crawler_running returns True exactly when PID_FILE names a live process
\* that is the crawler, and then keeps the file; in every other case it returns
\* False and PID_FILE is gone.
C17_RunningOnlyForLiveCrawler ==
    last_check.recorded # "nocall" =>
        /\ last_check.result <=> last_check.recorded = "crawler"
        /\ last_check.kept <=> last_check.result

\* is_crawler_running has met a PID_FILE whose PID belongs to a program that is not
\* the crawler, answered False and removed the file
C17_ForeignPidTreatedStale ==
    /\ last_check = [recorded |-> "other", result |-> FALSE, kept |-> FALSE]
    /\ pid_file = NoPid
    /\ \E p \in Pids : kind[p] = "other"

\* C18: stop_crawler called when PID_FILE is absent or when the recorded process has
\* exited signals no process, starts no kill sequence and leaves no PID record.
C18_StopIdempotent ==
    [][\A s \in Sessions :
         (StopCrawler(s) /\ ~(pid_file # NoPid /\ kind[pid_file] = "crawler")) =>
             /\ kind' = kind
             /\ spc'[s] = "idle"
             /\ pid_file' = NoPid]_vars

\* C21: within one run no page is fetched twice: any two calls of get_page_soup
\* (seed, detail pages, BFS pages) are for URLs whose canonical forms differ.
C21_NoPageFetchedTwice ==
    \A i, j \in 1..Len(fetched) :
        canonicalize_url(fetched[i]) = canonicalize_url(fetched[j]) => i = j

\* a step of crawl() that goes past a poll of the flag to new work: a page fetch,
\* an iteration of the detail loop or a dequeue of the BFS (each with its robots
\* check), an iteration of a candidate loop (robots check, certification probe and
\* download), the opening of a file
StartsNewWork ==
    \/ fetched' # fetched
    \/ pc = "page_detail" /\ pc' = "page_detail"
    \/ pc = "bfs_loop" /\ q # << >> /\ q' = Tail(q)
    \/ pc \in { "page_cand", "bfs_cand" } /\ todo # << >> /\ todo' = Tail(todo)
    \/ probed' # probed
    \/ pc # "download" /\ pc' = "download"
    \/ writes' # writes

\* C22: the cancellation flag, once set, is never cleared, and from the poll at
\* which crawl() first sees it set no step starts a page fetch, a robots check, a
\* certification probe or a download.
C22_NoNewWorkOnceStopSeen ==
    [][/\ stop_event => stop_event'
       /\ stop_observed' => ~StartsNewWork]_vars

\* a finished run that first saw the flag inside a download and left candidates
\* of the page unprocessed
C22_StoppedWithCandidatesLeft ==
    /\ pc = "done" /\ stop_event /\ stop_observed
    /\ aborted # { }
    /\ todo # << >>

\* C23: every run of crawl() terminates, in every scope and on a link graph with
\* cycles, when every network, render and download operation returns.
C23_CrawlTerminates == <>(pc = "done")

\* a finished domain-scope run over the cycle seed -> PageP -> seed, PageP linking
\* itself as well
C23_CyclicGraphRunDone ==
    /\ pc = "done" /\ scope = "domain" /\ site = "direct"
    /\ PagePSorted \in visited_pages
    /\ canonicalize_url(start_url) \in visited_pages
    /\ Len(fetched) >= 3

\* C24: a browser started by a rendered fetch is quit before get_page_soup returns
\* or raises: a live browser exists only between the return of fetch_with_selenium
\* and the end of the get_page_soup that called it.
C24_DriverReleased ==
    driver => pc \in { "seed_ret", "detail_ret", "bfs_ret" }

\* a URL text that ends in '.pdf' or holds one of the endpoint names of PDF_HINTS,
\* in whatever letter case
PdfShaped(t) ==
    \/ EndsWith(LowerText(t), << ".pdf" >>)
    \/ \E h \in PDF_HINTS : Contains(LowerText(t), LowerText(h))

\* C25: looks_like_pdf_url answers True for every URL that ends in '.pdf' or holds
\* one of the endpoint names of PDF_HINTS, in whatever letter case it is written.
C25_HintsInAnyCase ==
    (fn_out.pdf # "uncalled" /\ PdfShaped(fn_arg)) => fn_out.pdf = "yes"

\* C26: canonicalize_url is idempotent, and two URLs that differ only in the order
\* of their query parameters have the same canonical form.
C26_CanonicalizeIdempotent ==
    /\ fn_out.again # NoText => fn_out.again = fn_out.canon
    /\ (fn_out.canon # NoText /\ fn_out.other # NoText) => fn_out.other = fn_out.canon

\* canonicalize_url was applied twice, and once more to a reordering, for a URL in
\* upper case with a fragment, an escaped value and a blank value that come first
\* in the query
C26_MixedUrlCanonicalized ==
    /\ fn_arg = << "HTTP", "://", "A.EX.ORG", "/", "list", "?",
                   "y", "=", "a%20b", "&", "x", "=", "#", "top" >>
    /\ fn_out.canon = << "http", "://", "a.ex.org", "/", "list", "?",
                         "x", "=", "&", "y", "=", "a+b" >>
    /\ fn_out.again # NoText
    /\ fn_out.other # NoText

\* C27: the supervisor signals only the process group of a recorded PID that is
\* the crawler: no step of stop_crawler, cleanup_on_start, cleanup_on_exit or
\* _kill_process_group sends SIGTERM or SIGKILL to a group that holds a process
\* that is not part of a crawler.
C27_OnlyCrawlerGroupSignalled ==
    [][\A t \in Threads :
         /\ (spc[t] # "kill_wait" /\ spc'[t] = "kill_wait") =>
              /\ kind[pid_file] = "crawler"
              /\ \A r \in Group(pgid[pid_file]) : kind[r] # "other"
         /\ (spc[t] = "kill_wait" /\ spc'[t] # "kill_wait" /\ pid_exists(kpid[t])) =>
              /\ kind[kpid[t]] = "crawler"
              /\ \A r \in Group(pgid[kpid[t]]) : kind[r] # "other"]_vars

\* C28: with respect_robots true, no URL that robots.txt disallows is probed or
\* downloaded as a PDF, and no page that robots.txt disallows is fetched, under
\* every scope.
C28_RobotsRespectedEverywhere ==
    respect_robots =>
        /\ \A u \in probed : is_allowed_by_robots(u)
        /\ \A i \in 1..Len(writes) : is_allowed_by_robots(writes[i].url)
        /\ \A i \in 1..Len(fetched) : is_allowed_by_robots(fetched[i])

====
